---- MODULE Spec2Model ----
(***************************************************************************)
(* Model of unreal-plugin-pkg: version parsing and matching (installs.ts), *)
(* platform gating, settings merge, and the build orchestration of         *)
(* main() in cli.ts together with the fire-and-forget archive tasks of     *)
(* zip.ts.  main() is modelled as src/cli.ts has it, with the working      *)
(* directory changed around execSync.                                      *)
(*                                                                         *)
(* Strings are sequences of one-character strings.  JavaScript numbers     *)
(* that may be NaN or undefined are tagged records (Num, NaN, Undefined).  *)
(***************************************************************************)
EXTENDS Integers, Sequences, FiniteSets, TLC

VARIABLES
    \* ---- pure-function harness (ParseVersionNumber, GetMatchingUnrealInstallation)
    version,            \* the version string handed to the function under test
    requestedVersion,   \* what ParseVersionNumber produced for it
    match,              \* what GetMatchingUnrealInstallation produced for it
    installedVersion,   \* the installed version handed to IsGreaterThanOrEqual
    neededVersion,      \* the needed (partial) version handed to it
    atLeast,            \* what IsGreaterThanOrEqual answered
    \* ---- the scan of the configured roots (FindUnrealInstallations)
    rootDirs,           \* per configured root, what is on disk there
    scans,              \* per configured root, the state of its scan
    scanResult,         \* what FindUnrealInstallations resolved to
    \* ---- inputs of one program run
    platform,           \* process.platform
    disk,               \* per configured root, the installations its scan finds
    file,               \* cleanup/zip fields of ./unreal-package.json
    opts,               \* command line: versions, platforms and the three flags
    \* ---- state of the run
    settings,           \* the merged BuildSettings object
    pc,                 \* position of main()
    error,              \* what main() threw, "none" while it has not
    installs,           \* result of FindUnrealInstallations
    installsToUse,      \* installations resolved so far
    vi,                 \* index into settings.VersionsToInstall
    bi,                 \* index into installsToUse
    cwd,                \* process.cwd()
    builds,             \* build tool invocations, in the order started
    dirs,               \* output directory -> subfolders currently present
    cleaned,            \* output directories cleanDirectory has completed on
    archives,           \* archive tasks submitted, in order
    log,                \* the distinct console lines written about archive tasks
    terminated          \* the process is gone

\* the variables of the comparison harness and of the scan
aside == << installedVersion, neededVersion, atLeast, rootDirs, scans, scanResult >>

vars == << aside, version, requestedVersion, match, platform, disk, file, opts,
           settings, pc, error, installs, installsToUse, vi, bi, cwd, builds, dirs,
           cleaned, archives, log, terminated >>

-----------------------------------------------------------------------------
(* Bounds of the model *)

MaxLen == 7         \* longest version string given to ParseVersionNumber alone
MaxInstalls == 3    \* longest installation list given to the matcher alone
MaxRoots == 2       \* configured search roots in a run
MaxVersions == 2    \* requested version specs in a run
MaxPlatforms == 2   \* requested target platforms in a run

-----------------------------------------------------------------------------
(* JavaScript values *)

Num(n) == [k |-> "num", n |-> n]
NaN == [k |-> "NaN", n |-> 0]
Undefined == [k |-> "undefined", n |-> 0]

\* a === b on numbers/undefined: NaN is equal to nothing, itself included
StrictEquals(a, b) == a.k # "NaN" /\ b.k # "NaN" /\ a = b

-----------------------------------------------------------------------------
(* Strings *)

WhiteSpace == {" "}
DecimalDigits == {"0", "1", "2", "3", "4", "5", "6", "7", "8", "9"}

DigitValue(c) ==
    CASE c = "0" -> 0 [] c = "1" -> 1 [] c = "2" -> 2 [] c = "3" -> 3
      [] c = "4" -> 4 [] c = "5" -> 5 [] c = "6" -> 6 [] c = "7" -> 7
      [] c = "8" -> 8 [] c = "9" -> 9

RECURSIVE TrimStart(_)
TrimStart(s) ==
    IF s # << >> /\ Head(s) \in WhiteSpace THEN TrimStart(Tail(s)) ELSE s

RECURSIVE TrimEnd(_)
TrimEnd(s) ==
    IF s # << >> /\ s[Len(s)] \in WhiteSpace
    THEN TrimEnd(SubSeq(s, 1, Len(s) - 1)) ELSE s

\* String.prototype.trim
Trim(s) == TrimEnd(TrimStart(s))

\* String.prototype.split('.'): the empty string yields one empty token
RECURSIVE Split(_)
Split(s) ==
    IF \A i \in 1..Len(s) : s[i] # "."
    THEN << s >>
    ELSE LET d == CHOOSE i \in 1..Len(s) :
                      s[i] = "." /\ \A j \in 1..(i - 1) : s[j] # "."
         IN  << SubSeq(s, 1, d - 1) >> \o Split(SubSeq(s, d + 1, Len(s)))

\* the longest prefix of decimal digits
RECURSIVE DigitPrefix(_)
DigitPrefix(s) ==
    IF s # << >> /\ Head(s) \in DecimalDigits
    THEN << Head(s) >> \o DigitPrefix(Tail(s)) ELSE << >>

RECURSIVE DigitsValue(_, _)
DigitsValue(s, acc) ==
    IF s = << >> THEN acc ELSE DigitsValue(Tail(s), 10 * acc + DigitValue(Head(s)))

\* parseInt(n) with no radix: leading white space is skipped, one sign is
\* taken, then the longest run of digits; what follows is ignored; no
\* digit at all gives NaN.  (The "0x" prefix is not in the alphabets used.)
ParseInt(s) ==
    LET t == TrimStart(s)
        neg == t # << >> /\ Head(t) = "-"
        u == IF t # << >> /\ Head(t) \in {"-", "+"} THEN Tail(t) ELSE t
        ds == DigitPrefix(u)
    IN  IF ds = << >> THEN NaN
        ELSE Num(IF neg THEN 0 - DigitsValue(ds, 0) ELSE DigitsValue(ds, 0))

RECURSIVE Reverse(_)
Reverse(s) == IF s = << >> THEN << >> ELSE Reverse(Tail(s)) \o << Head(s) >>

\* Array.prototype.pop: the removed last element (undefined on an empty
\* array) and the array that is left
Pop(a) ==
    IF a = << >> THEN [value |-> Undefined, rest |-> << >>]
    ELSE [value |-> a[Len(a)], rest |-> SubSeq(a, 1, Len(a) - 1)]

-----------------------------------------------------------------------------
(* installs.ts: ParseVersionNumber *)

Threw == [threw |-> TRUE]

\* version.trim().split('.').map(n => parseInt(n)).reverse()
ParsedNumbers(v) ==
    LET tokens == Split(Trim(v))
    IN  Reverse([i \in 1..Len(tokens) |-> ParseInt(tokens[i])])

\* numbers.some(n => n === NaN)
SomeIsNaN(numbers) == \E i \in 1..Len(numbers) : StrictEquals(numbers[i], NaN)

ParseVersionNumber(v) ==
    LET numbers == ParsedNumbers(v)
    IN  IF Len(numbers) > 3 \/ Len(numbers) = 0 \/ SomeIsNaN(numbers)
        THEN Threw
        ELSE LET p1 == Pop(numbers)
                 p2 == Pop(p1.rest)
                 p3 == Pop(p2.rest)
             IN  [threw |-> FALSE,
                  MajorVersion |-> p1.value,
                  MinorVersion |-> p2.value,
                  PatchVersion |-> p3.value]

-----------------------------------------------------------------------------
(* installs.ts: installations and the matcher *)

Version(major, minor, patch) ==
    [MajorVersion |-> major, MinorVersion |-> minor, PatchVersion |-> patch]

\* path.join(directory, "Engine", "Build", "BatchFiles")
BatchFilesPathOf(directory) == << directory, "Engine", "Build", "BatchFiles" >>

\* the record FindUnrealInstallation returns for a directory
Installation(v, directory) ==
    [Version |-> v, RootPath |-> directory,
     BatchFilesPath |-> BatchFilesPathOf(directory)]

Null == [null |-> TRUE]

IsMatch(installed, needed) ==
    /\ StrictEquals(Num(installed.MajorVersion), needed.MajorVersion)
    /\ \/ StrictEquals(Num(installed.MinorVersion), needed.MinorVersion)
       \/ StrictEquals(needed.MinorVersion, Undefined)
    /\ \/ StrictEquals(Num(installed.PatchVersion), needed.PatchVersion)
       \/ StrictEquals(needed.PatchVersion, Undefined)

\* a < b on numbers: false as soon as one side is NaN (undefined converts to NaN)
LessThan(a, b) == a.k = "num" /\ b.k = "num" /\ a.n < b.n

IsGreaterThanOrEqual(installed, needed) ==
    IF StrictEquals(needed.MajorVersion, Undefined) THEN TRUE
    ELSE IF LessThan(Num(installed.MajorVersion), needed.MajorVersion) THEN FALSE
    ELSE IF StrictEquals(Num(installed.MajorVersion), needed.MajorVersion)
    THEN IF StrictEquals(needed.MinorVersion, Undefined) THEN TRUE
         ELSE IF LessThan(Num(installed.MinorVersion), needed.MinorVersion) THEN FALSE
         ELSE IF StrictEquals(Num(installed.MinorVersion), needed.MinorVersion)
         THEN IF StrictEquals(needed.PatchVersion, Undefined) THEN TRUE
              ELSE IF LessThan(needed.PatchVersion, needed.PatchVersion) THEN FALSE
              ELSE TRUE
         ELSE TRUE
    ELSE TRUE

\* mutant of CompareVersion: the patch level is not compared
CompareVersionNoPatch(a, b) ==
    IF a.MajorVersion # b.MajorVersion THEN a.MajorVersion - b.MajorVersion
    ELSE a.MinorVersion - b.MinorVersion

CompareVersion(a, b) ==
    IF a.MajorVersion # b.MajorVersion THEN a.MajorVersion - b.MajorVersion
    ELSE IF a.MinorVersion # b.MinorVersion THEN a.MinorVersion - b.MinorVersion
    ELSE a.PatchVersion - b.PatchVersion

\* installs.filter(install => IsMatch(install.Version, requestedVersion))
RECURSIVE FilterMatching(_, _)
FilterMatching(list, needed) ==
    IF list = << >> THEN << >>
    ELSE (IF IsMatch(Head(list).Version, needed) THEN << Head(list) >> ELSE << >>)
         \o FilterMatching(Tail(list), needed)

\* one insertion step of the stable sort: x goes behind every element
\* that does not compare greater than it
RECURSIVE InsertSorted(_, _)
InsertSorted(sorted, x) ==
    IF sorted = << >> THEN << x >>
    ELSE IF CompareVersion(Head(sorted).Version, x.Version) > 0
         THEN << x >> \o sorted
         ELSE << Head(sorted) >> \o InsertSorted(Tail(sorted), x)

\* Array.prototype.sort((a, b) => CompareVersion(a.Version, b.Version)):
\* ascending and stable (ECMAScript 2019, every Node release that has the
\* fs/promises module plugin.ts imports)
RECURSIVE SortByVersion(_)
SortByVersion(list) ==
    IF list = << >> THEN << >>
    ELSE InsertSorted(SortByVersion(SubSeq(list, 1, Len(list) - 1)), list[Len(list)])

\* mutant of GetMatchingUnrealInstallation: the first of the matching
\* installations with the greatest version is taken, not the last
GetMatchingFirstFound(list, v) ==
    LET requested == ParseVersionNumber(v)
    IN  IF requested.threw THEN Threw
        ELSE LET matchingInstalls == FilterMatching(list, requested)
                 sorted == SortByVersion(matchingInstalls)
                 best == sorted[Len(sorted)].Version
                 first == CHOOSE i \in 1..Len(matchingInstalls) :
                              /\ matchingInstalls[i].Version = best
                              /\ \A j \in 1..(i - 1) : matchingInstalls[j].Version # best
             IN  IF Len(matchingInstalls) = 0
                 THEN [threw |-> FALSE, install |-> Null]
                 ELSE [threw |-> FALSE, install |-> matchingInstalls[first]]

GetMatchingUnrealInstallation(list, v) ==
    LET requested == ParseVersionNumber(v)
    IN  IF requested.threw THEN Threw
        ELSE LET matchingInstalls == FilterMatching(list, requested)
             IN  IF Len(matchingInstalls) = 0
                 THEN [threw |-> FALSE, install |-> Null]
                 ELSE [threw |-> FALSE,
                       install |-> Pop(SortByVersion(matchingInstalls)).value]

-----------------------------------------------------------------------------
(* Number and version formatting *)

DigitChar(d) ==
    CASE d = 0 -> "0" [] d = 1 -> "1" [] d = 2 -> "2" [] d = 3 -> "3"
      [] d = 4 -> "4" [] d = 5 -> "5" [] d = 6 -> "6" [] d = 7 -> "7"
      [] d = 8 -> "8" [] d = 9 -> "9"

\* Number.prototype.toString of a non-negative integer
RECURSIVE NatToString(_)
NatToString(n) ==
    IF n < 10 THEN << DigitChar(n) >>
    ELSE NatToString(n \div 10) \o << DigitChar(n % 10) >>

\* template-literal conversion of an integer
NumberToString(n) == IF n < 0 THEN << "-" >> \o NatToString(0 - n) ELSE NatToString(n)

UnrealVersionString(v) ==
    NumberToString(v.MajorVersion) \o << "." >> \o NumberToString(v.MinorVersion)
        \o << "." >> \o NumberToString(v.PatchVersion)

-----------------------------------------------------------------------------
(* Inputs *)

\* all sequences over S of length at most n
SeqsUpTo(S, n) == UNION {[1..k -> S] : k \in 0..n}

\* characters of the version strings given to ParseVersionNumber alone
Alphabet == {"1", "4", ".", "x", " ", "-"}

\* version specs as the documentation writes them, \d+(.\d+)?(.\d+)?,
\* as the sequence of their one to three numbers
Majors == {4, 5, 6}
Minors == {0, 25, 26}
Patches == {0, 2}
VersionSpecs ==
    {<< a >> : a \in Majors}
        \cup {<< a, b >> : a \in Majors, b \in Minors}
        \cup {<< a, b, c >> : a \in Majors, b \in Minors, c \in Patches}

\* the text of a version spec: its numbers joined by dots
RECURSIVE VersionText(_)
VersionText(spec) ==
    IF Len(spec) = 1 THEN NumberToString(spec[1])
    ELSE VersionText(SubSeq(spec, 1, Len(spec) - 1))
             \o << "." >> \o NumberToString(spec[Len(spec)])

\* version strings that are not of the documented format
MalformedStrings ==
    { << >>,
      << "4", ".", "x" >>,
      << "4", "x" >>,
      << "1", ".", "2", ".", "3", ".", "4" >>,
      << "x" >> }

\* installations the matcher is tried on: two of them have the same
\* version under different roots
I_4_25_0 == Installation(Version(4, 25, 0), "UE_4.25")
I_4_26_0 == Installation(Version(4, 26, 0), "UE_4.26")
I_4_26_2 == Installation(Version(4, 26, 2), "UE_4.26.2")
I_4_26_2_Copy == Installation(Version(4, 26, 2), "Copy/UE_4.26.2")
I_5_0_0 == Installation(Version(5, 0, 0), "UE_5.0")
I_4_24_0 == Installation(Version(4, 24, 0), "UE_4.24")
InstallUniverse == {I_4_25_0, I_4_26_0, I_4_26_2, I_4_26_2_Copy, I_5_0_0}

-----------------------------------------------------------------------------
(* Values of the variables a specification does not use *)

NoRun ==
    /\ platform = "win32"
    /\ disk = << >>
    /\ file = Null
    /\ opts = Null
    /\ settings = Null
    /\ error = "none"
    /\ installsToUse = << >>
    /\ vi = 1
    /\ bi = 1
    /\ cwd = << >>
    /\ builds = << >>
    /\ dirs = << >>
    /\ cleaned = << >>
    /\ archives = << >>
    /\ log = {}
    /\ terminated = FALSE

NoCompare ==
    /\ installedVersion = Null
    /\ neededVersion = Null
    /\ atLeast = Null

NoScan ==
    /\ rootDirs = << >>
    /\ scans = << >>
    /\ scanResult = Null

RunUnchanged ==
    UNCHANGED << platform, disk, file, opts, settings, error, installsToUse,
                 vi, bi, cwd, builds, dirs, cleaned, archives, log, terminated >>

-----------------------------------------------------------------------------
(* ParseVersionNumber applied to every string over Alphabet *)

InitParse ==
    /\ version \in SeqsUpTo(Alphabet, MaxLen)
    /\ requestedVersion = Null
    /\ match = Null
    /\ installs = << >>
    /\ pc = "parse"
    /\ NoRun
    /\ NoCompare
    /\ NoScan

ParseVersion ==
    /\ pc = "parse"
    /\ requestedVersion' = ParseVersionNumber(version)
    /\ pc' = "parsed"
    /\ UNCHANGED << aside, version, match, installs >>
    /\ RunUnchanged

NextParse == ParseVersion

SpecParse == InitParse /\ [][NextParse]_vars

-----------------------------------------------------------------------------
(* GetMatchingUnrealInstallation applied to installation lists and strings *)

InitMatch ==
    /\ version \in {VersionText(spec) : spec \in VersionSpecs} \cup MalformedStrings
    /\ installs \in SeqsUpTo(InstallUniverse, MaxInstalls)
    /\ requestedVersion = Null
    /\ match = Null
    /\ pc = "match"
    /\ NoRun
    /\ NoCompare
    /\ NoScan

MatchVersion ==
    /\ pc = "match"
    /\ match' = GetMatchingUnrealInstallation(installs, version)
    /\ pc' = "matched"
    /\ UNCHANGED << aside, version, requestedVersion, installs >>
    /\ RunUnchanged

NextMatch == MatchVersion

SpecMatch == InitMatch /\ [][NextMatch]_vars

-----------------------------------------------------------------------------
(* IsGreaterThanOrEqual applied to installed and needed versions *)

\* installed versions around the needed ones
InstalledVersions ==
    {Version(a, b, c) : a \in {3, 4, 5}, b \in {24, 25, 26}, c \in {0, 1, 2}}

\* needed versions, filled from the left as every caller fills them
NeededVersions ==
    LET U == Undefined
        P(a, b, c) == [MajorVersion |-> a, MinorVersion |-> b, PatchVersion |-> c]
    IN  {P(U, U, U)}
            \cup {P(Num(a), U, U) : a \in {4}}
            \cup {P(Num(a), Num(b), U) : a \in {4}, b \in {25}}
            \cup {P(Num(a), Num(b), Num(c)) : a \in {4}, b \in {25}, c \in {0, 1}}

InitCompare ==
    /\ installedVersion \in InstalledVersions
    /\ neededVersion \in NeededVersions
    /\ atLeast = Null
    /\ version = << >>
    /\ requestedVersion = Null
    /\ match = Null
    /\ installs = << >>
    /\ pc = "compare"
    /\ NoRun
    /\ NoScan

CompareVersions ==
    /\ pc = "compare"
    /\ atLeast' = [value |-> IsGreaterThanOrEqual(installedVersion, neededVersion)]
    /\ pc' = "compared"
    /\ UNCHANGED << installedVersion, neededVersion, rootDirs, scans, scanResult,
                    version,
                    requestedVersion, match, installs >>
    /\ RunUnchanged

NextCompare == CompareVersions

SpecCompare == InitCompare /\ [][NextCompare]_vars

-----------------------------------------------------------------------------
(* installs.ts: host-dependent helpers *)

Hosts == {"win32", "darwin", "linux", "freebsd"}
UnrealPlatform == {"Win64", "IOS", "Android", "Mac", "Linux"}

\* the RunUAT script of an installation, or a throw on an unknown host
GetRunUATBatch(install) ==
    CASE platform = "win32" ->
            [threw |-> FALSE, path |-> install.BatchFilesPath \o << "RunUAT.bat" >>]
      [] platform \in {"linux", "darwin"} ->
            [threw |-> FALSE, path |-> install.BatchFilesPath \o << "RunUAT.sh" >>]
      [] OTHER -> Threw

\* path.dirname
Dirname(path) == SubSeq(path, 1, Len(path) - 1)

\* mutant of IsPlatformSupported: Android is gated on the minor version alone
IsPlatformSupportedMinorOnly(install, p) ==
    CASE platform = "win32" ->
            \/ p = "Win64"
            \/ p = "Android" /\ install.Version.MinorVersion >= 25
      [] platform = "darwin" -> p = "Mac" \/ p = "IOS"
      [] platform = "linux" -> p = "Linux"
      [] OTHER -> FALSE

IsPlatformSupported(install, p) ==
    CASE platform = "win32" ->
            \/ p = "Win64"
            \/ /\ p = "Android"
               /\ IsGreaterThanOrEqual(install.Version,
                      [MajorVersion |-> Num(4), MinorVersion |-> Num(25),
                       PatchVersion |-> Undefined])
      [] platform = "darwin" -> p = "Mac" \/ p = "IOS"
      [] platform = "linux" -> p = "Linux"
      [] OTHER -> FALSE

\* options.Platforms.filter(p => IsPlatformSupported(install, p))
RECURSIVE SupportedPlatforms(_, _)
SupportedPlatforms(install, platforms) ==
    IF platforms = << >> THEN << >>
    ELSE (IF IsPlatformSupported(install, Head(platforms))
          THEN << Head(platforms) >> ELSE << >>)
         \o SupportedPlatforms(install, Tail(platforms))

\* result.flatMap(list => list) over the per-root results, in root order
RECURSIVE FindUnrealInstallations(_)
FindUnrealInstallations(roots) ==
    IF roots = << >> THEN << >>
    ELSE Head(roots) \o FindUnrealInstallations(Tail(roots))

-----------------------------------------------------------------------------
(* FindUnrealInstallations over concurrently scanned roots *)

\* what the disk holds at one path: a file, a directory (with the parsed
\* content of its Engine/Build/Build.version, or Null without a readable
\* one, and with its entries in readdir order), or nothing
Node(name, kind, buildVersion, entries) ==
    [name |-> name, kind |-> kind, buildVersion |-> buildVersion,
     entries |-> entries]

Engine(name, v, entries) == Node(name, "directory", v, entries)

Folder(name, entries) == Node(name, "directory", Null, entries)

File(name) == Node(name, "file", Null, << >>)

Missing(name) == Node(name, "missing", Null, << >>)

\* an engine given as a root, with another engine beneath it
R_Engine ==
    Engine("UE_4.26.2", Version(4, 26, 2),
           << Engine("Nested", Version(4, 25, 0), << >>) >>)

\* a directory of engines, with a file, and with a folder that is no
\* engine but has one beneath it
R_Epic ==
    Folder("Epic",
           << File("readme.txt"),
              Engine("UE_4.25", Version(4, 25, 0), << >>),
              Folder("Launcher", << Engine("UE_5.0", Version(5, 0, 0), << >>) >>),
              Engine("UE_4.26.2", Version(4, 26, 2), << >>) >>)

R_Copy == Folder("Copy", << Engine("UE_4.26.2", Version(4, 26, 2), << >>) >>)

R_Empty == Folder("Empty", << >>)

\* a configured path at which there is no directory
R_Missing == Missing("Missing")

RootChoices == {R_Engine, R_Epic, R_Copy, R_Empty, R_Missing}

\* FindUnrealInstallation(directory), directory holding node
FindUnrealInstallation(directory, node) ==
    IF node.kind = "directory" /\ node.buildVersion # Null
    THEN [threw |-> FALSE, install |-> Installation(node.buildVersion, directory)]
    ELSE Threw

\* FindUnrealInstallationsInternal(directory) up to its first await
StartedScan ==
    [pc |-> "tryRoot", files |-> << >>, idx |-> 1, result |-> << >>]

\* path.join(directory, file) of the entry the scan of root r is at
EntryPath(r) == << rootDirs[r].name, scans[r].files[scans[r].idx].name >>

\* the loop over files moves to the next entry, or the scan returns
NextEntry(r) ==
    [scans EXCEPT ![r].idx = @ + 1,
                  ![r].pc = IF scans[r].idx = Len(scans[r].files)
                            THEN "resolved" ELSE "lstat"]

\* NextEntry after result.push(installation)
NextEntryWith(r, installation) ==
    [NextEntry(r) EXCEPT ![r].result = Append(@, installation)]

InitScan ==
    /\ rootDirs \in SeqsUpTo(RootChoices, MaxRoots)
    /\ scans = << >>
    /\ scanResult = Null
    /\ version = << >>
    /\ requestedVersion = Null
    /\ match = Null
    /\ installs = << >>
    /\ pc = "call"
    /\ NoRun
    /\ NoCompare

ScanUnchanged ==
    /\ UNCHANGED << installedVersion, neededVersion, atLeast, version,
                    requestedVersion, match, installs >>
    /\ RunUnchanged

\* directories.map(FindUnrealInstallationsInternal): every scan is started,
\* in root order, and runs to its first await
StartScans ==
    /\ pc = "call"
    /\ scans' = [r \in 1..Len(rootDirs) |-> StartedScan]
    /\ pc' = "scanning"
    /\ UNCHANGED << rootDirs, scanResult >>
    /\ ScanUnchanged

\* the first FindUnrealInstallation resolves: the root is the sole result
RootIsInstallation ==
    /\ pc \in {"scanning", "rejected"}
    /\ \E r \in 1..Len(scans) :
           /\ scans[r].pc = "tryRoot"
           /\ LET found == FindUnrealInstallation(<< rootDirs[r].name >>, rootDirs[r])
              IN  /\ ~found.threw
                  /\ scans' = [scans EXCEPT ![r].result = << found.install >>,
                                            ![r].pc = "resolved"]
    /\ UNCHANGED << rootDirs, scanResult, pc >>
    /\ ScanUnchanged

\* the first FindUnrealInstallation rejects: readdir is started
RootIsNoInstallation ==
    /\ pc \in {"scanning", "rejected"}
    /\ \E r \in 1..Len(scans) :
           /\ scans[r].pc = "tryRoot"
           /\ FindUnrealInstallation(<< rootDirs[r].name >>, rootDirs[r]).threw
           /\ scans' = [scans EXCEPT ![r].pc = "readdir"]
    /\ UNCHANGED << rootDirs, scanResult, pc >>
    /\ ScanUnchanged

\* readdir resolves with the entries of the root
ReadDirectory ==
    /\ pc \in {"scanning", "rejected"}
    /\ \E r \in 1..Len(scans) :
           /\ scans[r].pc = "readdir"
           /\ rootDirs[r].kind = "directory"
           /\ scans' = [scans EXCEPT ![r].files = rootDirs[r].entries,
                                     ![r].pc = IF rootDirs[r].entries = << >>
                                               THEN "resolved" ELSE "lstat"]
    /\ UNCHANGED << rootDirs, scanResult, pc >>
    /\ ScanUnchanged

\* readdir rejects (no such directory): the scan of the root rejects
ReadDirectoryFails ==
    /\ pc \in {"scanning", "rejected"}
    /\ \E r \in 1..Len(scans) :
           /\ scans[r].pc = "readdir"
           /\ rootDirs[r].kind # "directory"
           /\ scans' = [scans EXCEPT ![r].pc = "rejected"]
    /\ UNCHANGED << rootDirs, scanResult, pc >>
    /\ ScanUnchanged

\* lstat resolves and the entry is no directory: it is skipped
SkipNonDirectory ==
    /\ pc \in {"scanning", "rejected"}
    /\ \E r \in 1..Len(scans) :
           /\ scans[r].pc = "lstat"
           /\ scans[r].files[scans[r].idx].kind # "directory"
           /\ scans' = NextEntry(r)
    /\ UNCHANGED << rootDirs, scanResult, pc >>
    /\ ScanUnchanged

\* lstat resolves and the entry is a directory: it is tried
StatDirectory ==
    /\ pc \in {"scanning", "rejected"}
    /\ \E r \in 1..Len(scans) :
           /\ scans[r].pc = "lstat"
           /\ scans[r].files[scans[r].idx].kind = "directory"
           /\ scans' = [scans EXCEPT ![r].pc = "tryEntry"]
    /\ UNCHANGED << rootDirs, scanResult, pc >>
    /\ ScanUnchanged

\* FindUnrealInstallation(dir) resolves: the installation is pushed
EntryIsInstallation ==
    /\ pc \in {"scanning", "rejected"}
    /\ \E r \in 1..Len(scans) :
           /\ scans[r].pc = "tryEntry"
           /\ LET found == FindUnrealInstallation(EntryPath(r),
                                                  scans[r].files[scans[r].idx])
              IN  /\ ~found.threw
                  /\ scans' = NextEntryWith(r, found.install)
    /\ UNCHANGED << rootDirs, scanResult, pc >>
    /\ ScanUnchanged

\* FindUnrealInstallation(dir) rejects: the entry is skipped
EntryIsNoInstallation ==
    /\ pc \in {"scanning", "rejected"}
    /\ \E r \in 1..Len(scans) :
           /\ scans[r].pc = "tryEntry"
           /\ FindUnrealInstallation(EntryPath(r),
                                     scans[r].files[scans[r].idx]).threw
           /\ scans' = NextEntry(r)
    /\ UNCHANGED << rootDirs, scanResult, pc >>
    /\ ScanUnchanged

\* Promise.all resolves once every scan has: the lists are flattened
ReturnInstallations ==
    /\ pc = "scanning"
    /\ \A r \in 1..Len(scans) : scans[r].pc = "resolved"
    /\ scanResult' =
           FindUnrealInstallations([r \in 1..Len(scans) |-> scans[r].result])
    /\ pc' = "returned"
    /\ UNCHANGED << rootDirs, scans >>
    /\ ScanUnchanged

\* Promise.all rejects as soon as one scan has: FindUnrealInstallations
\* rejects, whatever the other scans find
ScanRejects ==
    /\ pc = "scanning"
    /\ \E r \in 1..Len(scans) : scans[r].pc = "rejected"
    /\ pc' = "rejected"
    /\ UNCHANGED << rootDirs, scans, scanResult >>
    /\ ScanUnchanged

NextScan ==
    \/ StartScans
    \/ RootIsInstallation
    \/ RootIsNoInstallation
    \/ ReadDirectory
    \/ ReadDirectoryFails
    \/ SkipNonDirectory
    \/ StatDirectory
    \/ EntryIsInstallation
    \/ EntryIsNoInstallation
    \/ ReturnInstallations
    \/ ScanRejects

SpecScan == InitScan /\ [][NextScan]_vars

-----------------------------------------------------------------------------
(* settings.ts and the settings merge of cli.ts *)

DefaultPlatforms ==
    CASE platform = "win32" -> << "Win64" >>
      [] platform = "darwin" -> << "Mac" >>
      [] platform = "linux" -> << "Linux" >>
      [] OTHER -> << >>

DefaultBuildSettings ==
    [VersionsToInstall |-> << << "4" >> >>,
     Platforms |-> DefaultPlatforms,
     CleanIntermediateFiles |-> TRUE,
     CleanBinaryFiles |-> FALSE,
     ZipPackages |-> TRUE]

\* opts.x ?? fallback : an option that was not given is undefined
Coalesce(o, name, fallback) == IF name \in DOMAIN o THEN o[name] ELSE fallback

\* a flag option is true when given and undefined (falsy) when not
Flag(o, name) == name \in DOMAIN o

\* mutant of MergedSettings: --keepIntermediate is not applied
MergedSettingsIgnoringKeep ==
    LET loaded == file @@ DefaultBuildSettings
    IN  [VersionsToInstall |-> Coalesce(opts, "versions", loaded.VersionsToInstall),
         Platforms |-> Coalesce(opts, "platforms", loaded.Platforms),
         CleanIntermediateFiles |-> loaded.CleanIntermediateFiles,
         CleanBinaryFiles |->
             IF Flag(opts, "cleanBinaries") THEN TRUE ELSE loaded.CleanBinaryFiles,
         ZipPackages |-> IF Flag(opts, "nozip") THEN FALSE ELSE loaded.ZipPackages]

\* {...DefaultBuildSettings, ...file}, then the command line on top
MergedSettings ==
    LET loaded == file @@ DefaultBuildSettings
    IN  [VersionsToInstall |-> Coalesce(opts, "versions", loaded.VersionsToInstall),
         Platforms |-> Coalesce(opts, "platforms", loaded.Platforms),
         CleanIntermediateFiles |->
             IF Flag(opts, "keepIntermediate") THEN FALSE
             ELSE loaded.CleanIntermediateFiles,
         CleanBinaryFiles |->
             IF Flag(opts, "cleanBinaries") THEN TRUE ELSE loaded.CleanBinaryFiles,
         ZipPackages |-> IF Flag(opts, "nozip") THEN FALSE ELSE loaded.ZipPackages]

-----------------------------------------------------------------------------
(* cli.ts: values main() computes *)

\* the directory the program is started in
OriginalCwd == << "project" >>

\* plugin.FriendlyName of the descriptor
FriendlyName == << "P" >>

\* s.replace(/\./g, '_')
ReplaceDots(s) == [i \in 1..Len(s) |-> IF s[i] = "." THEN "_" ELSE s[i]]

\* the package directory of an installation, relative to options.OutputPath
OutputDirectory(install) ==
    FriendlyName \o << "_" >> \o ReplaceDots(UnrealVersionString(install.Version))

\* the folders the build tool leaves in a finished package
PackageFolders == {"Intermediate", "Binaries", "Source"}

\* dirs with directory d holding exactly the folders fs
WithFolders(d, fs) == (d :> fs) @@ dirs

FoldersOf(d) == IF d \in DOMAIN dirs THEN dirs[d] ELSE {}

\* main() is suspended at an await on I/O, or has returned: the only
\* times at which callbacks of archive tasks can run
AtAwait == pc \in {"cleanIntermediate", "cleanBinaries", "done", "rejected"}

\* main() throws: its promise rejects and nothing handles it.  Depending
\* on the Node release the process then dies at once (exit code 1) or
\* prints a warning and lives on until the event loop is empty.
Rejects(cause) ==
    /\ pc' = "rejected"
    /\ error' = cause
    /\ terminated' \in BOOLEAN

-----------------------------------------------------------------------------
(* cli.ts: the run, one action per step of main() *)

LoadSettings ==
    /\ pc = "settings"
    /\ settings' = MergedSettings
    /\ pc' = "scan"
    /\ UNCHANGED << aside, version, requestedVersion, match, platform, disk, file,
                    opts,
                    error, installs, installsToUse, vi, bi, cwd, builds, dirs,
                    cleaned, archives, log, terminated >>

FindInstallations ==
    /\ pc = "scan"
    /\ installs' = FindUnrealInstallations(disk)
    /\ pc' = IF settings.VersionsToInstall = << >> THEN "plugin" ELSE "resolve"
    /\ UNCHANGED << aside, version, requestedVersion, match, platform, disk, file,
                    opts,
                    settings, error, installsToUse, vi, bi, cwd, builds, dirs,
                    cleaned, archives, log, terminated >>

\* mutant of ResolveVersion: an installation already chosen is not added again
ResolveVersionOnce ==
    /\ pc = "resolve"
    /\ LET r == GetMatchingUnrealInstallation(installs, settings.VersionsToInstall[vi])
       IN  /\ IF r.threw THEN FALSE ELSE r.install # Null
           /\ installsToUse' =
                  IF \E i \in 1..Len(installsToUse) : installsToUse[i] = r.install
                  THEN installsToUse ELSE Append(installsToUse, r.install)
    /\ vi' = vi + 1
    /\ pc' = IF vi = Len(settings.VersionsToInstall) THEN "plugin" ELSE "resolve"
    /\ UNCHANGED << aside, version, requestedVersion, match, platform, disk, file,
                    opts,
                    settings, error, installs, bi, cwd, builds, dirs, cleaned,
                    archives, log, terminated >>

\* one iteration of the resolution loop that finds an installation
ResolveVersion ==
    /\ pc = "resolve"
    /\ LET r == GetMatchingUnrealInstallation(installs, settings.VersionsToInstall[vi])
       IN  /\ IF r.threw THEN FALSE ELSE r.install # Null
           /\ installsToUse' = Append(installsToUse, r.install)
    /\ vi' = vi + 1
    /\ pc' = IF vi = Len(settings.VersionsToInstall) THEN "plugin" ELSE "resolve"
    /\ UNCHANGED << aside, version, requestedVersion, match, platform, disk, file,
                    opts,
                    settings, error, installs, bi, cwd, builds, dirs, cleaned,
                    archives, log, terminated >>

\* one iteration of the resolution loop that throws: ParseVersionNumber
\* rejects the string, or no installation matches
ResolveFails ==
    /\ pc = "resolve"
    /\ LET r == GetMatchingUnrealInstallation(installs, settings.VersionsToInstall[vi])
       IN  IF r.threw THEN TRUE ELSE r.install = Null
    /\ Rejects("version")
    /\ UNCHANGED << aside, version, requestedVersion, match, platform, disk, file,
                    opts,
                    settings, installs, installsToUse, vi, bi, cwd, builds, dirs,
                    cleaned, archives, log >>

\* await GetPluginInformation(options.PluginPath) returns the descriptor
LoadPlugin ==
    /\ pc = "plugin"
    /\ pc' = IF installsToUse = << >> THEN "done" ELSE "build"
    /\ UNCHANGED << aside, version, requestedVersion, match, platform, disk, file,
                    opts,
                    settings, error, installs, installsToUse, vi, bi, cwd, builds,
                    dirs, cleaned, archives, log, terminated >>

\* GetPluginInformation throws: no descriptor, unreadable or not JSON
LoadPluginFails ==
    /\ pc = "plugin"
    /\ Rejects("plugin")
    /\ UNCHANGED << aside, version, requestedVersion, match, platform, disk, file,
                    opts,
                    settings, installs, installsToUse, vi, bi, cwd, builds, dirs,
                    cleaned, archives, log >>

\* the head of one iteration of the build loop, up to the start of execSync:
\* platforms are filtered, the working directory is saved and changed,
\* the build tool is launched
StartBuild ==
    /\ pc = "build"
    /\ LET install == installsToUse[bi]
           uatPath == GetRunUATBatch(install)
       IN  /\ ~uatPath.threw
           /\ builds' = Append(builds,
                  [install |-> install,
                   platforms |-> SupportedPlatforms(install, settings.Platforms),
                   outputDirectory |-> OutputDirectory(install),
                   cwd |-> cwd,
                   status |-> "running"])
           /\ cwd' = Dirname(uatPath.path)
    /\ pc' = "exec"
    /\ UNCHANGED << aside, version, requestedVersion, match, platform, disk, file,
                    opts,
                    settings, error, installs, installsToUse, vi, bi, dirs, cleaned,
                    archives, log, terminated >>

\* GetRunUATBatch throws on a host that is neither Windows, macOS nor Linux
StartBuildFails ==
    /\ pc = "build"
    /\ GetRunUATBatch(installsToUse[bi]).threw
    /\ Rejects("host")
    /\ UNCHANGED << aside, version, requestedVersion, match, platform, disk, file,
                    opts,
                    settings, installs, installsToUse, vi, bi, cwd, builds, dirs,
                    cleaned, archives, log >>

\* mutant of AfterBuild: cleanDirectory is not called
AfterBuildWithoutCleanup == "zip"

\* what follows cleanDirectory's first test
AfterBuild ==
    IF settings.CleanIntermediateFiles \/ settings.CleanBinaryFiles
    THEN "cleanIntermediate" ELSE "zip"

\* execSync returns: the build tool exited with code 0 and left the package;
\* the working directory is restored and cleanDirectory is entered
BuildSucceeds ==
    /\ pc = "exec"
    /\ builds' = [builds EXCEPT ![bi].status = "ok"]
    /\ dirs' = WithFolders(builds[bi].outputDirectory, PackageFolders)
    /\ cwd' = builds[bi].cwd
    /\ pc' = AfterBuild
    /\ UNCHANGED << aside, version, requestedVersion, match, platform, disk, file,
                    opts,
                    settings, error, installs, installsToUse, vi, bi, cleaned,
                    archives, log, terminated >>

\* mutant of BuildFails: the failure is swallowed and the loop goes on
BuildFailsAndContinues ==
    /\ pc = "exec"
    /\ builds' = [builds EXCEPT ![bi].status = "failed"]
    /\ bi' = bi + 1
    /\ pc' = IF bi = Len(installsToUse) THEN "done" ELSE "build"
    /\ UNCHANGED << aside, version, requestedVersion, match, platform, disk, file,
                    opts,
                    settings, error, installs, installsToUse, vi, cwd, dirs, cleaned,
                    archives, log, terminated >>

\* execSync throws: the build tool exited nonzero or could not be launched;
\* it may have left a partial package behind
BuildFails ==
    /\ pc = "exec"
    /\ builds' = [builds EXCEPT ![bi].status = "failed"]
    /\ \/ dirs' = dirs
       \/ dirs' = WithFolders(builds[bi].outputDirectory, {"Intermediate"})
    /\ Rejects("build")
    /\ UNCHANGED << aside, version, requestedVersion, match, platform, disk, file,
                    opts,
                    settings, installs, installsToUse, vi, bi, cwd, cleaned,
                    archives, log >>

\* await rimrafPromise(path.join(dir, "Intermediate")) resolves
RemoveIntermediate ==
    /\ pc = "cleanIntermediate"
    /\ LET dir == builds[bi].outputDirectory
       IN  /\ dirs' = WithFolders(dir, FoldersOf(dir) \ {"Intermediate"})
           /\ cleaned' = Append(cleaned,
                  [build |-> bi, dir |-> dir, folder |-> "Intermediate"])
    /\ pc' = IF settings.CleanBinaryFiles THEN "cleanBinaries" ELSE "zip"
    /\ UNCHANGED << aside, version, requestedVersion, match, platform, disk, file,
                    opts,
                    settings, error, installs, installsToUse, vi, bi, cwd, builds,
                    archives, log, terminated >>

\* await rimrafPromise(path.join(dir, "Binaries")) resolves
RemoveBinaries ==
    /\ pc = "cleanBinaries"
    /\ LET dir == builds[bi].outputDirectory
       IN  /\ dirs' = WithFolders(dir, FoldersOf(dir) \ {"Binaries"})
           /\ cleaned' = Append(cleaned,
                  [build |-> bi, dir |-> dir, folder |-> "Binaries"])
    /\ pc' = "zip"
    /\ UNCHANGED << aside, version, requestedVersion, match, platform, disk, file,
                    opts,
                    settings, error, installs, installsToUse, vi, bi, cwd, builds,
                    archives, log, terminated >>

\* one of the two rimraf calls rejects (a locked or protected file)
RemoveFails ==
    /\ pc \in {"cleanIntermediate", "cleanBinaries"}
    /\ Rejects("cleanup")
    /\ UNCHANGED << aside, version, requestedVersion, match, platform, disk, file,
                    opts,
                    settings, installs, installsToUse, vi, bi, cwd, builds, dirs,
                    cleaned, archives, log >>

\* the tail of one iteration: the archive task is started and not awaited,
\* and the loop moves on
SubmitArchive ==
    /\ pc = "zip"
    /\ archives' =
           IF settings.ZipPackages
           THEN Append(archives,
                    [build |-> bi, dir |-> builds[bi].outputDirectory,
                     state |-> "reading"])
           ELSE archives
    /\ bi' = bi + 1
    /\ pc' = IF bi = Len(installsToUse) THEN "done" ELSE "build"
    /\ UNCHANGED << aside, version, requestedVersion, match, platform, disk, file,
                    opts,
                    settings, error, installs, installsToUse, vi, cwd, builds, dirs,
                    cleaned, log, terminated >>

-----------------------------------------------------------------------------
(* zip.ts: the archive tasks, one action per callback *)

\* zipper.zip's callback without error: compress, then save is started
ArchiveRead ==
    /\ ~terminated
    /\ AtAwait
    /\ \E a \in 1..Len(archives) :
           /\ archives[a].state = "reading"
           /\ archives' = [archives EXCEPT ![a].state = "saving"]
    /\ UNCHANGED << aside, version, requestedVersion, match, platform, disk, file,
                    opts,
                    settings, pc, error, installs, installsToUse, vi, bi, cwd,
                    builds, dirs, cleaned, log, terminated >>

\* save's callback without error: resolve(), and .then logs the success
ArchiveSaved ==
    /\ ~terminated
    /\ AtAwait
    /\ \E a \in 1..Len(archives) :
           /\ archives[a].state = "saving"
           /\ archives' = [archives EXCEPT ![a].state = "finished"]
           /\ log' = log \cup {<< "Finished zipping", archives[a].dir >>}
    /\ UNCHANGED << aside, version, requestedVersion, match, platform, disk, file,
                    opts,
                    settings, pc, error, installs, installsToUse, vi, bi, cwd,
                    builds, dirs, cleaned, terminated >>

\* either callback with an error: reject(), and .catch logs the failure
ArchiveFails ==
    /\ ~terminated
    /\ AtAwait
    /\ \E a \in 1..Len(archives) :
           /\ archives[a].state \in {"reading", "saving"}
           /\ archives' = [archives EXCEPT ![a].state = "failed"]
           /\ log' = log \cup {<< "Failed to zip", archives[a].dir >>}
    /\ UNCHANGED << aside, version, requestedVersion, match, platform, disk, file,
                    opts,
                    settings, pc, error, installs, installsToUse, vi, bi, cwd,
                    builds, dirs, cleaned, terminated >>

\* main() is over and nothing is pending: the event loop is empty
Exit ==
    /\ ~terminated
    /\ pc \in {"done", "rejected"}
    /\ \A a \in 1..Len(archives) : archives[a].state \in {"finished", "failed"}
    /\ terminated' = TRUE
    /\ UNCHANGED << aside, version, requestedVersion, match, platform, disk, file,
                    opts,
                    settings, pc, error, installs, installsToUse, vi, bi, cwd,
                    builds, dirs, cleaned, archives, log >>

-----------------------------------------------------------------------------
(* The runs checked *)

\* per-root scan results
RootResults == { << I_4_26_2 >>, << I_4_25_0, I_4_26_2_Copy >>, << I_5_0_0 >> }

\* version strings requested in the runs
RequestStrings ==
    { << "4" >>, << "4", ".", "2", "6" >>, << "5" >>, << "9" >>, << "4", "x" >>,
      << "1", ".", "2", ".", "3", ".", "4" >> }

\* every way of giving or not giving the three flags on the command line
FlagOptions ==
    UNION {[names -> {TRUE}] : names \in SUBSET {"keepIntermediate", "cleanBinaries", "nozip"}}

\* every way of setting or not setting the three switches in the file
FileSwitches ==
    UNION {[names -> BOOLEAN] :
              names \in SUBSET {"CleanIntermediateFiles", "CleanBinaryFiles", "ZipPackages"}}

Start ==
    /\ NoCompare
    /\ NoScan
    /\ version = << >>
    /\ requestedVersion = Null
    /\ match = Null
    /\ settings = Null
    /\ pc = "settings"
    /\ error = "none"
    /\ installs = << >>
    /\ installsToUse = << >>
    /\ vi = 1
    /\ bi = 1
    /\ cwd = OriginalCwd
    /\ builds = << >>
    /\ dirs = << >>
    /\ cleaned = << >>
    /\ archives = << >>
    /\ log = {}
    /\ terminated = FALSE

\* runs that vary the installations found and the versions requested
InitVersions ==
    /\ platform = "win32"
    /\ disk \in SeqsUpTo(RootResults, MaxRoots)
    /\ file = << >>
    /\ opts \in {[versions |-> vs, platforms |-> << "Win64", "Android" >>] :
                    vs \in SeqsUpTo(RequestStrings, MaxVersions)}
    /\ Start

\* runs that vary the host, the requested platforms and the installation
InitPlatforms ==
    /\ platform \in Hosts
    /\ disk = << << I_4_24_0, I_4_25_0, I_4_26_2 >>, << I_5_0_0 >> >>
    /\ file = << >>
    /\ opts \in {[versions |-> << vs >>, platforms |-> ps] :
                    vs \in { << "4", ".", "2", "4" >>, << "4", ".", "2", "5" >>,
                             << "4" >>, << "5" >> },
                    ps \in SeqsUpTo(UnrealPlatform, MaxPlatforms)}
    /\ Start

\* runs that vary the settings file and the command-line flags
InitSwitches ==
    /\ platform \in {"win32", "linux"}
    /\ disk = << << I_4_26_2, I_5_0_0 >> >>
    /\ file \in FileSwitches
    /\ opts \in {flags @@ o : flags \in FlagOptions,
                              o \in { << >>, [versions |-> << << "4" >>, << "5" >> >>] }}
    /\ Start

Init == InitVersions \/ InitPlatforms \/ InitSwitches

Next ==
    \/ LoadSettings
    \/ FindInstallations
    \/ ResolveVersion
    \/ ResolveFails
    \/ LoadPlugin
    \/ LoadPluginFails
    \/ StartBuild
    \/ StartBuildFails
    \/ BuildSucceeds
    \/ BuildFails
    \/ RemoveIntermediate
    \/ RemoveBinaries
    \/ RemoveFails
    \/ SubmitArchive
    \/ ArchiveRead
    \/ ArchiveSaved
    \/ ArchiveFails
    \/ Exit

Spec == Init /\ [][Next]_vars

-----------------------------------------------------------------------------
(* Reference notions the claims are stated with *)

\* a token of the documented format: a non-empty run of decimal digits
IsNonNegativeInteger(token) ==
    token # << >> /\ \A i \in 1..Len(token) : token[i] \in DecimalDigits

\* one to three dot-separated non-negative integer tokens
WellFormed(v) ==
    LET tokens == Split(v)
    IN  /\ Len(tokens) \in 1..3
        /\ \A i \in 1..Len(tokens) : IsNonNegativeInteger(tokens[i])

\* an installation satisfies a version spec
Satisfies(install, spec) ==
    /\ install.Version.MajorVersion = spec[1]
    /\ Len(spec) >= 2 => install.Version.MinorVersion = spec[2]
    /\ Len(spec) >= 3 => install.Version.PatchVersion = spec[3]

\* (major, minor, patch) of a is lexicographically at most that of b
LexLeq(a, b) ==
    \/ a.MajorVersion < b.MajorVersion
    \/ /\ a.MajorVersion = b.MajorVersion
       /\ \/ a.MinorVersion < b.MinorVersion
          \/ /\ a.MinorVersion = b.MinorVersion
             /\ a.PatchVersion <= b.PatchVersion

\* positions in list of the installations that satisfy spec
Matching(list, spec) == {i \in 1..Len(list) : Satisfies(list[i], spec)}

\* positions of the satisfying installations with the greatest version
Best(list, spec) ==
    {i \in Matching(list, spec) :
        \A j \in Matching(list, spec) : LexLeq(list[j].Version, list[i].Version)}

Min(S) == CHOOSE x \in S : \A y \in S : x <= y
Max(S) == CHOOSE x \in S : \A y \in S : y <= x

-----------------------------------------------------------------------------
(* Claims about the parser and the matcher *)

\* C1: a version string with zero tokens, more than three tokens or a
\* token that is not a non-negative integer is rejected by
\* ParseVersionNumber and never yields a version spec.
C1_MalformedIsRejected ==
    (pc = "parsed" /\ ~WellFormed(version)) => requestedVersion.threw

\* C2: for a valid version spec the matcher returns no match exactly when
\* no installation satisfies the spec, and otherwise an installation of
\* the list that satisfies it and whose version is lexicographically
\* greatest among the satisfying ones; a three-part spec is answered
\* only by exactly that version.
C2_GreatestMatch ==
    pc = "matched" =>
        \A spec \in VersionSpecs :
            version = VersionText(spec) =>
                /\ ~match.threw
                /\ (Matching(installs, spec) = {}) <=> (match.install = Null)
                /\ Matching(installs, spec) # {} =>
                       /\ \E i \in Best(installs, spec) : installs[i] = match.install
                       /\ Len(spec) = 3 =>
                              match.install.Version = Version(spec[1], spec[2], spec[3])

\* C2 witness: a two-part spec satisfied by installations of different
\* versions, next to one that does not satisfy it, was resolved.
C2_Witness ==
    /\ pc = "matched"
    /\ \E spec \in VersionSpecs :
           /\ version = VersionText(spec)
           /\ Len(spec) = 2
           /\ Matching(installs, spec) # 1..Len(installs)
           /\ \E i, j \in Matching(installs, spec) :
                  installs[i].Version # installs[j].Version
           /\ match.install \in {installs[i] : i \in Best(installs, spec)}

\* the case of C10: several installations with the greatest satisfying
\* version under different root paths
TiedUnderDifferentRoots(spec) ==
    Cardinality({installs[i].RootPath : i \in Best(installs, spec)}) >= 2

\* C10 as stated: among installations tied for the greatest satisfying
\* version, the one that comes first in the scan result is returned.
C10_FirstFoundWins ==
    pc = "matched" =>
        \A spec \in VersionSpecs :
            (version = VersionText(spec) /\ TiedUnderDifferentRoots(spec)) =>
                match.install = installs[Min(Best(installs, spec))]

\* C10 amended: among installations tied for the greatest satisfying
\* version, the one that comes last in the scan result is returned.
C10_LastFoundWins ==
    pc = "matched" =>
        \A spec \in VersionSpecs :
            (version = VersionText(spec) /\ TiedUnderDifferentRoots(spec)) =>
                /\ ~match.threw
                /\ match.install = installs[Max(Best(installs, spec))]

\* C10 witness: a tie under different roots was resolved to the later one.
C10_Witness ==
    /\ pc = "matched"
    /\ \E spec \in VersionSpecs :
           /\ version = VersionText(spec)
           /\ TiedUnderDifferentRoots(spec)
           /\ match.install = installs[Max(Best(installs, spec))]
           /\ match.install # installs[Min(Best(installs, spec))]

-----------------------------------------------------------------------------
(* Reference notions for the claims about a run *)

\* the numbers of a well-formed version string
SpecOf(v) ==
    LET tokens == Split(v)
    IN  [i \in 1..Len(tokens) |-> DigitsValue(tokens[i], 0)]

\* the requested versions of the run and the installations on disk
Requested == settings.VersionsToInstall
OnDisk == FindUnrealInstallations(disk)

\* a requested string that must stop the run: malformed, or satisfied by
\* no installation
Unbuildable(v) ==
    IF WellFormed(v) THEN Matching(OnDisk, SpecOf(v)) = {} ELSE TRUE

\* the installations the requested versions resolve to, in request order
\* (Null where a version resolves to none)
Resolved ==
    LET found == OnDisk
    IN  [i \in 1..Len(Requested) |->
            LET r == GetMatchingUnrealInstallation(found, Requested[i])
            IN  IF r.threw THEN Null ELSE r.install]

\* the host table of target platforms
HostAllows(host, p, v) ==
    CASE host = "win32" ->
            p = "Win64" \/ (p = "Android" /\ LexLeq(Version(4, 25, 0), v))
      [] host = "darwin" -> p \in {"Mac", "IOS"}
      [] host = "linux" -> p = "Linux"
      [] OTHER -> FALSE

Settled(a) == a.state \in {"finished", "failed"}

SomeBuildFailed == \E i \in 1..Len(builds) : builds[i].status = "failed"

-----------------------------------------------------------------------------
(* Claims about a run of main() *)

\* C3: if a requested version string is malformed or resolves to no
\* installation, or the plugin descriptor cannot be loaded, the build
\* tool is never invoked, not even for specs earlier in the list.
C3_FailFast ==
    pc # "settings" =>
        ((\/ \E i \in 1..Len(Requested) : Unbuildable(Requested[i])
          \/ error = "plugin")
            => builds = << >>)

\* C4: the build tool is invoked at most once per requested spec, in the
\* order requested, each time with the installation the spec resolved
\* to; a build is running only as the latest invocation while main() is
\* blocked in it; and a run that completes has invoked it exactly once
\* per spec, every time successfully.
C4_OneBuildPerSpecInOrder ==
    pc # "settings" =>
        /\ Len(builds) <= Len(Requested)
        /\ builds = << >> \/
               LET resolved == Resolved
               IN  \A i \in 1..Len(builds) : builds[i].install = resolved[i]
        /\ \A i \in 1..Len(builds) :
               builds[i].status = "running" => (i = Len(builds) /\ pc = "exec")
        /\ pc = "done" =>
               /\ Len(builds) = Len(Requested)
               /\ \A i \in 1..Len(builds) : builds[i].status = "ok"

\* C4 witness: a run of two specs that resolved to different
\* installations has completed.
C4_Witness ==
    /\ pc = "done"
    /\ Len(Requested) = 2
    /\ Len(builds) = 2
    /\ builds[1].install # builds[2].install
    /\ Len(archives) = 2

\* C5, in each state: a failed build is the last invocation, main() has
\* thrown, and no cleanup and no archive task exists for that build.
C5_FailedBuildIsLast ==
    \A i \in 1..Len(builds) :
        builds[i].status = "failed" =>
            /\ i = Len(builds)
            /\ pc = "rejected"
            /\ \A c \in 1..Len(cleaned) : cleaned[c].build < i
            /\ \A a \in 1..Len(archives) : archives[a].build < i

\* C5, in each step: once a build has failed no build is started, nothing
\* is cleaned, no output directory changes, no archive task is added and
\* a settled archive task stays as it is.
C5_NothingAfterFailure ==
    SomeBuildFailed =>
        /\ builds' = builds
        /\ cleaned' = cleaned
        /\ dirs' = dirs
        /\ Len(archives') = Len(archives)
        /\ \A a \in 1..Len(archives) :
               /\ archives'[a].dir = archives[a].dir
               /\ Settled(archives[a]) => archives'[a] = archives[a]

\* C5: a build that exits nonzero or cannot be launched aborts the
\* sequence: no cleanup and no archive for it, no later build, and the
\* output directories and archive tasks of the earlier builds are left
\* as they are.
C5_BuildFailureAborts == []C5_FailedBuildIsLast /\ [][C5_NothingAfterFailure]_vars

\* C5 witness: the second build failed while the archive task of the
\* first was not yet settled.
C5_Witness ==
    /\ Len(builds) = 2
    /\ builds[1].status = "ok"
    /\ builds[2].status = "failed"
    /\ Len(archives) = 1
    /\ ~Settled(archives[1])
    /\ ~terminated

\* C6: whenever main() is not inside a build tool invocation, the working
\* directory is the one the run started with.
C6_WorkingDirectoryRestored == pc # "exec" => cwd = OriginalCwd

\* C7: the platforms passed to the build tool are the requested
\* platforms, in the requested order, that the host table allows for the
\* installation being built; and on every host, for every installation
\* found and every platform, IsPlatformSupported answers as the table does.
C7_PlatformsPassed ==
    /\ \A i \in 1..Len(builds) :
           builds[i].platforms =
               SelectSeq(settings.Platforms,
                         LAMBDA p : HostAllows(platform, p, builds[i].install.Version))
    /\ \A i \in 1..Len(installs), p \in UnrealPlatform :
           IsPlatformSupported(installs[i], p)
               <=> HostAllows(platform, p, installs[i].Version)

\* C7 witness: on Windows, Win64 and Android were requested and 4.24.0
\* was built for Win64 alone.
C7_Witness ==
    /\ platform = "win32"
    /\ pc # "settings"
    /\ settings.Platforms = << "Win64", "Android" >>
    /\ \E i \in 1..Len(builds) :
           /\ builds[i].install.Version = Version(4, 24, 0)
           /\ builds[i].platforms = << "Win64" >>

\* C8: when the process is gone, every archive task that was submitted
\* has completed or has had its failure logged.
C8_ArchivesSettleBeforeExit ==
    terminated => \A a \in 1..Len(archives) : Settled(archives[a])

CleanBinariesRequested ==
    \/ Flag(opts, "cleanBinaries")
    \/ IF "CleanBinaryFiles" \in DOMAIN file THEN file.CleanBinaryFiles ELSE FALSE

-----------------------------------------------------------------------------
(* Claim about the version comparison *)

\* installed is lexicographically at least needed, over the fields that
\* needed specifies
AtLeastNeeded(i, n) ==
    IF n.MajorVersion = Undefined THEN TRUE
    ELSE IF i.MajorVersion # n.MajorVersion.n THEN i.MajorVersion > n.MajorVersion.n
    ELSE IF n.MinorVersion = Undefined THEN TRUE
    ELSE IF i.MinorVersion # n.MinorVersion.n THEN i.MinorVersion > n.MinorVersion.n
    ELSE IF n.PatchVersion = Undefined THEN TRUE
    ELSE i.PatchVersion >= n.PatchVersion.n

\* C11: IsGreaterThanOrEqual(installed, needed) is true exactly when
\* installed is lexicographically at least needed over the fields needed
\* specifies; with equal major and minor, a smaller installed patch is
\* rejected.
C11_ComparesInstalledWithNeeded ==
    pc = "compared" =>
        (atLeast.value <=> AtLeastNeeded(installedVersion, neededVersion))

\* an archive task that has been started and has not settled
InFlight(a) == archives[a].state \in {"reading", "saving"}

\* C12: the output directories of the builds of one run are pairwise
\* distinct, so an archive task in flight never shares its directory with
\* another archive task in flight or with a build or cleanup started after it.
C12_OutputDirectoriesDisjoint ==
    /\ \A i, j \in 1..Len(builds) :
           i # j => builds[i].outputDirectory # builds[j].outputDirectory
    /\ \A a \in 1..Len(archives) :
           InFlight(a) =>
               /\ \A b \in 1..Len(archives) :
                      (b # a /\ InFlight(b)) => archives[b].dir # archives[a].dir
               /\ \A i \in 1..Len(builds) :
                      i > archives[a].build =>
                          builds[i].outputDirectory # archives[a].dir

-----------------------------------------------------------------------------
(* Claim about the steps of one iteration of the build loop *)

\* the archive tasks submitted for build i
ArchivesOf(i) == {a \in 1..Len(archives) : archives[a].build = i}

\* cleanDirectory has removed folder from the package of build i
Removed(i, folder) ==
    \E c \in 1..Len(cleaned) :
        /\ cleaned[c].build = i
        /\ cleaned[c].dir = builds[i].outputDirectory
        /\ cleaned[c].folder = folder

\* cleanDirectory has done all it does for build i under the settings
CleanupFinished(i) ==
    /\ (settings.CleanIntermediateFiles \/ settings.CleanBinaryFiles)
           => Removed(i, "Intermediate")
    /\ settings.CleanBinaryFiles => Removed(i, "Binaries")

\* C13, in each state: a cleanup belongs to a build whose tool invocation
\* has returned; an archive task belongs to a build that was built and
\* cleaned, on that build's output directory; an iteration that is over
\* has submitted exactly one archive task if ZipPackages is on and none
\* otherwise; and a build that is due can start while archive tasks are
\* still in flight.
C13_BuiltCleanedThenArchived ==
    /\ \A c \in 1..Len(cleaned) :
           /\ cleaned[c].build \in 1..Len(builds)
           /\ builds[cleaned[c].build].status = "ok"
           /\ cleaned[c].dir = builds[cleaned[c].build].outputDirectory
    /\ \A a \in 1..Len(archives) :
           /\ settings.ZipPackages
           /\ archives[a].build \in 1..Len(builds)
           /\ builds[archives[a].build].status = "ok"
           /\ archives[a].dir = builds[archives[a].build].outputDirectory
           /\ CleanupFinished(archives[a].build)
    /\ \A i \in 1..Len(builds) :
           Cardinality(ArchivesOf(i)) =
               IF i < bi /\ settings.ZipPackages THEN 1 ELSE 0
    /\ pc = "build" => ENABLED (StartBuild \/ StartBuildFails)

\* C13, in each step: a folder is removed only for the build of this
\* iteration, after its tool invocation and before its archive task; an
\* archive task is submitted only for the build of this iteration, once
\* its cleanup has finished; a build is invoked only when the iteration
\* before it is over.
C13_OneStepAtATime ==
    /\ cleaned' # cleaned =>
           /\ Len(cleaned') = Len(cleaned) + 1
           /\ cleaned'[Len(cleaned')].build = bi
           /\ builds[bi].status = "ok"
           /\ ArchivesOf(bi) = {}
    /\ Len(archives') # Len(archives) =>
           /\ Len(archives') = Len(archives) + 1
           /\ archives'[Len(archives')].build = bi
           /\ archives'[Len(archives')].state = "reading"
           /\ builds[bi].status = "ok"
           /\ CleanupFinished(bi)
           /\ cleaned' = cleaned
    /\ builds' # builds /\ Len(builds') > Len(builds) =>
           /\ Len(builds') = bi
           /\ \A i \in 1..Len(builds) : builds[i].status = "ok"
           /\ settings.ZipPackages => \A i \in 1..Len(builds) : ArchivesOf(i) # {}

\* C13: each iteration of the build loop invokes the build tool, then
\* cleans the output directory, then (only with ZipPackages) submits
\* exactly one archive task for it, the cleanup being over before the
\* submission; the next build starts without waiting for that task.
C13_BuildCleanupArchive ==
    []C13_BuiltCleanedThenArchived /\ [][C13_OneStepAtATime]_vars

\* C13 witness: the second build is running; the first was built, both of
\* its folders were removed, and its archive task is still in flight.
C13_Witness ==
    /\ pc = "exec"
    /\ bi = 2
    /\ builds[1].status = "ok"
    /\ Removed(1, "Intermediate")
    /\ Removed(1, "Binaries")
    /\ Cardinality(ArchivesOf(1)) = 1
    /\ \A a \in ArchivesOf(1) : InFlight(a)

-----------------------------------------------------------------------------
(* Claim about the scan of the configured roots *)

\* the installation at path, as its version file describes it
InstallationAt(path, node) == Installation(node.buildVersion, path)

\* node is a directory with a readable version file
IsValidInstallation(node) == node.kind = "directory" /\ node.buildVersion # Null

\* the immediate subdirectories of root that are valid installations, in
\* listing order
RECURSIVE ValidSubdirectories(_, _)
ValidSubdirectories(root, entries) ==
    IF entries = << >> THEN << >>
    ELSE (IF IsValidInstallation(Head(entries))
          THEN << InstallationAt(<< root.name, Head(entries).name >>, Head(entries)) >>
          ELSE << >>)
         \o ValidSubdirectories(root, Tail(entries))

\* what one root contributes
Contribution(root) ==
    IF IsValidInstallation(root)
    THEN << InstallationAt(<< root.name >>, root) >>
    ELSE ValidSubdirectories(root, root.entries)

\* the contributions of the roots, in the configured order
RECURSIVE Contributions(_)
Contributions(rs) ==
    IF rs = << >> THEN << >>
    ELSE Contribution(Head(rs)) \o Contributions(Tail(rs))

\* C14: however the per-root scans interleave, FindUnrealInstallations
\* returns the concatenation, in the configured order of the roots, of
\* what each root contributes: the root itself if it is a valid
\* installation, else its immediate subdirectories that are valid
\* installations, once per root.
C14_ReturnsContributionsInRootOrder ==
    pc \in {"returned", "rejected"} =>
        /\ pc = "returned"
        /\ scanResult = Contributions(rootDirs)

====
